---------------------------- MODULE Spec2Model ----------------------------
(***************************************************************************)
(* A model of recipe_finder.py: an ingredient-based recipe finder.         *)
(*                                                                         *)
(* Strings are sequences of one-character strings, so that splitting,      *)
(* trimming, lower-casing and lexicographic comparison are computed and    *)
(* not assumed.  A float score is kept exactly: the quotient matched/total *)
(* is the pair <<matched, total>>, and a score rounded to three decimals   *)
(* is the integer number of thousandths.                                   *)
(***************************************************************************)
EXTENDS Integers, Sequences, FiniteSets, TLC

(***************************************************************************)
(* Bounds of the model.                                                    *)
(***************************************************************************)
MaxInputLen == 4   \* longest raw input line / argument, in characters
MaxAvail    == 2   \* longest available list handed to score_recipe
MaxIngs     == 2   \* longest ingredient list of a generated recipe
MaxRecipes  == 2   \* longest generated catalog
MaxTotal    == 21  \* longest ingredient list of a counted recipe

(***************************************************************************)
(* Characters and strings.                                                 *)
(***************************************************************************)
UpperCase == <<"A","B","C","D","E","F","G","H","I","J","K","L","M",
               "N","O","P","Q","R","S","T","U","V","W","X","Y","Z">>
LowerCase == <<"a","b","c","d","e","f","g","h","i","j","k","l","m",
               "n","o","p","q","r","s","t","u","v","w","x","y","z">>

\* F applied to the value of v: v is evaluated once, as the right-hand side
\* of an assignment to a Python local is
Let(v, F(_)) == CHOOSE r \in {F(x) : x \in {v}} : TRUE

IsUpper(c) == \E i \in DOMAIN UpperCase : UpperCase[i] = c
IsSpace(c) == c = " "

\* ord(c): the code point of a character of the model's alphabet
ord(c) ==
  IF c = " " THEN 32
  ELSE IF c = "," THEN 44
  ELSE IF IsUpper(c) THEN 64 + (CHOOSE i \in DOMAIN UpperCase : UpperCase[i] = c)
  ELSE 96 + (CHOOSE i \in DOMAIN LowerCase : LowerCase[i] = c)

\* str.lower() on one character
lower_char(c) ==
  IF IsUpper(c) THEN LowerCase[CHOOSE i \in DOMAIN UpperCase : UpperCase[i] = c]
  ELSE c

\* str.lower()
lower(s) == [i \in 1..Len(s) |-> lower_char(s[i])]

\* str.strip(): drop the leading and the trailing run of whitespace
strip(s) ==
  LET ink == {i \in 1..Len(s) : ~IsSpace(s[i])}
  IN  IF ink = {} THEN <<>>
      ELSE SubSeq(s, CHOOSE i \in ink : \A j \in ink : i <= j,
                     CHOOSE i \in ink : \A j \in ink : i >= j)

\* str.split(","): the pieces between commas, empty pieces included
split(s) ==
  LET commas == {i \in 1..Len(s) : s[i] = ","}
      \* the position of the k-th comma; 0 and Len(s)+1 close the ends
      cut(k) == IF k = 0 THEN 0
                ELSE IF k > Cardinality(commas) THEN Len(s) + 1
                ELSE CHOOSE i \in commas :
                       Cardinality({j \in commas : j <= i}) = k
  IN  [k \in 1..(Cardinality(commas) + 1) |->
         SubSeq(s, cut(k - 1) + 1, cut(k) - 1)]

\* Python's < on str: lexicographic by code point, a proper prefix is smaller
StrLess(a, b) ==
  LET differ == {i \in 1..Len(a) : i > Len(b) \/ a[i] # b[i]}
  IN  IF differ = {} THEN Len(a) < Len(b)
      ELSE LET d == CHOOSE i \in differ : \A j \in differ : i <= j
           IN  d <= Len(b) /\ ord(a[d]) < ord(b[d])

(***************************************************************************)
(* The recipe catalog of the program.                                      *)
(***************************************************************************)
SAMPLE_RECIPES ==
  << [name |-> <<"P","a","n","c","a","k","e","s">>,
      ingredients |-> <<<<"f","l","o","u","r">>,
                        <<"m","i","l","k">>,
                        <<"e","g","g">>,
                        <<"b","a","k","i","n","g"," ","p","o","w","d","e","r">>,
                        <<"s","a","l","t">>,
                        <<"b","u","t","t","e","r">>>>],
     [name |-> <<"O","m","e","l","e","t","t","e">>,
      ingredients |-> <<<<"e","g","g">>,
                        <<"s","a","l","t">>,
                        <<"p","e","p","p","e","r">>,
                        <<"b","u","t","t","e","r">>,
                        <<"o","n","i","o","n">>>>],
     [name |-> <<"T","o","m","a","t","o"," ","P","a","s","t","a">>,
      ingredients |-> <<<<"p","a","s","t","a">>,
                        <<"t","o","m","a","t","o">>,
                        <<"g","a","r","l","i","c">>,
                        <<"o","l","i","v","e"," ","o","i","l">>,
                        <<"s","a","l","t">>,
                        <<"b","a","s","i","l">>>>],
     [name |-> <<"G","r","i","l","l","e","d"," ","C","h","e","e","s","e">>,
      ingredients |-> <<<<"b","r","e","a","d">>,
                        <<"c","h","e","e","s","e">>,
                        <<"b","u","t","t","e","r">>>>],
     [name |-> <<"V","e","g","g","i","e"," ","S","a","l","a","d">>,
      ingredients |-> <<<<"l","e","t","t","u","c","e">>,
                        <<"t","o","m","a","t","o">>,
                        <<"c","u","c","u","m","b","e","r">>,
                        <<"o","l","i","v","e"," ","o","i","l">>,
                        <<"s","a","l","t">>,
                        <<"l","e","m","o","n">>>>],
     [name |-> <<"F","r","e","n","c","h"," ","T","o","a","s","t">>,
      ingredients |-> <<<<"b","r","e","a","d">>,
                        <<"e","g","g">>,
                        <<"m","i","l","k">>,
                        <<"b","u","t","t","e","r">>,
                        <<"c","i","n","n","a","m","o","n">>>>] >>

(***************************************************************************)
(* normalize and parse_input.                                              *)
(***************************************************************************)
\* a normalize that forgets to lower-case
normalize_keepcase(ing) == strip(ing)

normalize(ing) == Let(strip(ing), lower)

\* if p.strip()
NonBlank(p) == strip(p) # <<>>

\* parts = [p.strip() for p in arg.split(",") if p.strip()]
parse_input(arg) ==
  Let(SelectSeq(split(arg), NonBlank), LAMBDA kept :
  Let([i \in 1..Len(kept) |-> strip(kept[i])], LAMBDA parts :
      [i \in 1..Len(parts) |-> normalize(parts[i])]))

(***************************************************************************)
(* score_recipe.  The returned score is the exact quotient <<num, den>>;   *)
(* 0.0 is <<0, 1>>.                                                        *)
(***************************************************************************)
\* a score_recipe that collapses the recipe's own duplicates
score_recipe_dedup(avail, recipe) ==
  LET r_set         == {normalize(recipe.ingredients[i]) :
                          i \in 1..Len(recipe.ingredients)}
      available_set == {avail[i] : i \in 1..Len(avail)}
      matched       == Cardinality(r_set \cap available_set)
      total         == Cardinality(r_set)
      score         == IF total # 0 THEN <<matched, total>> ELSE <<0, 1>>
  IN  [score |-> score, matched |-> matched, total |-> total]

score_recipe(avail, recipe) ==
  Let([i \in 1..Len(recipe.ingredients) |-> normalize(recipe.ingredients[i])],
      LAMBDA r_ings :
  Let({avail[i] : i \in 1..Len(avail)},
      LAMBDA available_set :
  \* sum(1 for i in r_ings if i in available_set)
  Let(Cardinality({i \in 1..Len(r_ings) : r_ings[i] \in available_set}),
      LAMBDA matched :
  Let(Len(r_ings),
      LAMBDA total :
  Let(IF total # 0 THEN <<matched, total>> ELSE <<0, 1>>,
      LAMBDA score :
      [score |-> score, matched |-> matched, total |-> total])))))

(***************************************************************************)
(* round(score, 3), in thousandths.  The nearest thousandth; a quotient    *)
(* exactly half way between two thousandths needs a total that is a        *)
(* multiple of 16, and for total = 16 the float is exact and Python rounds *)
(* it to the even neighbour.                                               *)
(***************************************************************************)
\* a rounding that truncates to three decimals
round3_truncate(score) == (1000 * score[1]) \div score[2]

round3(score) ==
  LET n == 1000 * score[1]
      d == score[2]
      q == n \div d
      r == n % d
  IN  IF 2 * r < d THEN q
      ELSE IF 2 * r > d THEN q + 1
      ELSE IF q % 2 = 0 THEN q ELSE q + 1

(***************************************************************************)
(* find_matches.                                                           *)
(***************************************************************************)
\* an entry that keeps the normalized ingredients instead of the authored ones
MakeEntry_normalized(avail, r) ==
  LET s == score_recipe(avail, r)
  IN  [name        |-> r.name,
       matched     |-> s.matched,
       total       |-> s.total,
       score       |-> round3(s.score),
       missing     |-> s.total - s.matched,
       ingredients |-> [i \in 1..Len(r.ingredients) |->
                          normalize(r.ingredients[i])]]

MakeEntry(avail, r) ==
  Let(score_recipe(avail, r), LAMBDA s :
      [name        |-> r.name,
       matched     |-> s.matched,
       total       |-> s.total,
       score       |-> round3(s.score),
       missing     |-> s.total - s.matched,
       ingredients |-> r.ingredients])

\* a full test that counts any recipe with a match as full
IsFull_anymatch(entry) == entry.matched > 0

\* a full test that leaves out the recipe without ingredients
IsFull_nonempty(entry) == entry.matched = entry.total /\ entry.total > 0

\* if matched == total
IsFull(entry) == entry.matched = entry.total

\* an elif that became an else
IsPartial_else(entry) == TRUE

\* elif matched > 0
IsPartial(entry) == entry.matched > 0

\* the loop of find_matches over recipes[i..], appending to full and partial
RECURSIVE Classify(_, _, _, _, _)
Classify(avail, rs, i, full, partial) ==
  IF i > Len(rs) THEN [full |-> full, partial |-> partial]
  ELSE Let(MakeEntry(avail, rs[i]), LAMBDA entry :
           IF IsFull(entry)
           THEN Let(Append(full, entry), LAMBDA full1 :
                    Classify(avail, rs, i + 1, full1, partial))
           ELSE IF IsPartial(entry)
           THEN Let(Append(partial, entry), LAMBDA partial1 :
                    Classify(avail, rs, i + 1, full, partial1))
           ELSE Classify(avail, rs, i + 1, full, partial))

\* a sort key without the name
KeyLess_noname(a, b) ==
  \/ -a.score < -b.score
  \/ /\ a.score = b.score
     /\ -a.matched < -b.matched

\* the sort key (-x["score"], -x["matched"], x["name"]) and Python's < on it
KeyLess(a, b) ==
  \/ -a.score < -b.score
  \/ /\ a.score = b.score
     /\ \/ -a.matched < -b.matched
        \/ /\ a.matched = b.matched
           /\ StrLess(a.name, b.name)

\* list.sort(key=...): a stable sort.  The element at position i moves
\* behind the elements with a smaller key and behind the earlier elements
\* with an equal key.
sort(list) ==
  LET before(j, i) ==
        \/ KeyLess(list[j], list[i])
        \/ ~KeyLess(list[i], list[j]) /\ j < i
      place(i) == 1 + Cardinality({j \in 1..Len(list) : before(j, i)})
  IN  [k \in 1..Len(list) |-> list[CHOOSE i \in 1..Len(list) : place(i) = k]]

find_matches(avail, rs) ==
  Let(Classify(avail, rs, 1, <<>>, <<>>), LAMBDA c :
      [full_matches |-> sort(c.full), partial_matches |-> sort(c.partial)])

(***************************************************************************)
(* pretty_print.  A printed line is a tuple: its kind, then the values     *)
(* formatted into it.                                                      *)
(***************************************************************************)
\* products score*100 of a three-decimal float score that fall just below
\* the integer: 0.29*100, 0.57*100 and 0.58*100 (in thousandths)
FloatProductBelow == {290, 570, 580}

\* int(r["score"] * 100)
PctOf(score) ==
  IF score \in FloatProductBelow THEN (score \div 10) - 1 ELSE score \div 10

FullLine(r) == <<"full_item", r.name, r.matched, r.total>>

PartialLines(r) ==
  << <<"partial_item", r.name, PctOf(r.score), r.matched, r.total, r.missing>>,
     <<"ingredients", r.ingredients>> >>

\* for r in result["full_matches"]: one line each
FullSection(list) == [k \in 1..Len(list) |-> FullLine(list[k])]

\* for r in result["partial_matches"]: two lines each
PartialSection(list) ==
  [k \in 1..(2 * Len(list)) |-> PartialLines(list[(k + 1) \div 2])[2 - (k % 2)]]

pretty_print(res) ==
  <<  <<"full_header">>  >>
  \o (IF res.full_matches # <<>>
      THEN FullSection(res.full_matches) ELSE << <<"no_full">> >>)
  \o << <<"partial_header">> >>
  \o (IF res.partial_matches # <<>>
      THEN PartialSection(res.partial_matches) ELSE << <<"no_partial">> >>)

(***************************************************************************)
(* State.                                                                  *)
(***************************************************************************)
VARIABLES
  pc,         \* position of the run: start, check, match, present, done
  argv,       \* sys.argv[1:], the command-line arguments
  stdin,      \* the line input() reads when there is no argument
  recipes,    \* the catalog handed to find_matches
  available,  \* the parsed, normalized available ingredients
  result,     \* the value returned by find_matches
  out,        \* the lines written to standard output, in order
  calls       \* how many times find_matches and pretty_print have run

vars == <<pc, argv, stdin, recipes, available, result, out, calls>>

\* all sequences over S of length at most n
SeqsUpTo(S, n) == UNION {[1..k -> S] : k \in 0..n}

InputChars == {"e", "g", "E", " ", ","}
Inputs     == SeqsUpTo(InputChars, MaxInputLen)

EmptyResult == [full_matches |-> <<>>, partial_matches |-> <<>>]
NoCalls     == [find_matches |-> 0, pretty_print |-> 0]

(***************************************************************************)
(* A run of main(): one argument, or none and a line typed at the prompt.  *)
(***************************************************************************)
Init ==
  /\ pc = "start"
  /\ \/ argv \in {<<s>> : s \in Inputs} /\ stdin = <<>>
     \/ argv = <<>> /\ stdin \in Inputs
  /\ recipes = SAMPLE_RECIPES
  /\ available = <<>>
  /\ result = EmptyResult
  /\ out = <<>>
  /\ calls = NoCalls

\* if len(sys.argv) > 1: available = parse_input(sys.argv[1])
ReadArgument ==
  /\ pc = "start"
  /\ Len(argv) > 0
  /\ available' = parse_input(argv[1])
  /\ pc' = "check"
  /\ UNCHANGED <<argv, stdin, recipes, result, out, calls>>

\* else: raw = input(prompt); available = parse_input(raw)
\* input() writes the prompt to standard output before it reads
ReadPrompt ==
  /\ pc = "start"
  /\ Len(argv) = 0
  /\ out' = Append(out, <<"prompt">>)
  /\ available' = parse_input(stdin)
  /\ pc' = "check"
  /\ UNCHANGED <<argv, stdin, recipes, result, calls>>

\* an early exit that prints the message and forgets to return
ExitNoIngredients_noreturn ==
  /\ pc = "check"
  /\ available = <<>>
  /\ out' = Append(out, <<"no_ingredients">>)
  /\ pc' = "match"
  /\ UNCHANGED <<argv, stdin, recipes, available, result, calls>>

\* if not available: print(...); return
ExitNoIngredients ==
  /\ pc = "check"
  /\ available = <<>>
  /\ out' = Append(out, <<"no_ingredients">>)
  /\ pc' = "done"
  /\ UNCHANGED <<argv, stdin, recipes, available, result, calls>>

\* print(f"Available (normalized): {', '.join(available)}")
EchoAvailable ==
  /\ pc = "check"
  /\ available # <<>>
  /\ out' = Append(out, <<"available", available>>)
  /\ pc' = "match"
  /\ UNCHANGED <<argv, stdin, recipes, available, result, calls>>

\* result = find_matches(available, recipes)
CallFindMatches ==
  /\ pc = "match"
  /\ result' = find_matches(available, recipes)
  /\ calls' = [calls EXCEPT !.find_matches = @ + 1]
  /\ pc' = "present"
  /\ UNCHANGED <<argv, stdin, recipes, available, out>>

\* pretty_print(result)
CallPrettyPrint ==
  /\ pc = "present"
  /\ out' = out \o pretty_print(result)
  /\ calls' = [calls EXCEPT !.pretty_print = @ + 1]
  /\ pc' = "done"
  /\ UNCHANGED <<argv, stdin, recipes, available, result>>

Next ==
  \/ ReadArgument
  \/ ReadPrompt
  \/ ExitNoIngredients
  \/ EchoAvailable
  \/ CallFindMatches
  \/ CallPrettyPrint

Spec == Init /\ [][Next]_vars

\* main() is straight-line code: a step that can be taken is taken
LiveSpec == Spec /\ WF_vars(Next)

(***************************************************************************)
(* find_matches and pretty_print called, as main calls them, on any        *)
(* catalog and on one available list for each set of tokens.               *)
(***************************************************************************)
Tokens     == {<<"e">>, <<"g">>}
RawIngs    == {<<"E", " ">>, <<"g">>}
Names      == {<<"a">>, <<"B">>}
Recipes    == [name : Names, ingredients : SeqsUpTo(RawIngs, MaxIngs)]
Catalogs   == SeqsUpTo(Recipes, MaxRecipes)

\* one available list for each set of tokens
TokenSets == {<<>>, << <<"e">> >>, << <<"g">> >>, << <<"e">>, <<"g">> >>}

InitMatch ==
  /\ pc = "match"
  /\ argv = <<>>
  /\ stdin = <<>>
  /\ recipes \in Catalogs
  /\ available \in TokenSets
  /\ result = EmptyResult
  /\ out = <<>>
  /\ calls = NoCalls

NextMatch ==
  \/ CallFindMatches
  \/ CallPrettyPrint

SpecMatch == InitMatch /\ [][NextMatch]_vars

(***************************************************************************)
(* The same calls on one recipe and any available list, repeated and       *)
(* reordered tokens included.                                              *)
(***************************************************************************)
AvailLists == SeqsUpTo(Tokens, MaxAvail)

InitScore ==
  /\ pc = "match"
  /\ argv = <<>>
  /\ stdin = <<>>
  /\ \E r \in Recipes : recipes = <<r>>
  /\ available \in AvailLists
  /\ result = EmptyResult
  /\ out = <<>>
  /\ calls = NoCalls

SpecScore == InitScore /\ [][NextMatch]_vars

(***************************************************************************)
(* The same calls on one recipe of t ingredients of which the first m are  *)
(* available: every quotient m/t with t up to MaxTotal.                    *)
(***************************************************************************)
CountedRecipe(m, t) ==
  [name        |-> <<"a">>,
   ingredients |-> [i \in 1..t |-> IF i <= m THEN <<"e">> ELSE <<"g">>]]

InitCounted ==
  /\ pc = "match"
  /\ argv = <<>>
  /\ stdin = <<>>
  /\ \E t \in 0..MaxTotal : \E m \in 0..t : recipes = <<CountedRecipe(m, t)>>
  /\ available = <<<<"e">>>>
  /\ result = EmptyResult
  /\ out = <<>>
  /\ calls = NoCalls

SpecCounted == InitCounted /\ [][NextMatch]_vars

(***************************************************************************)
(* Vocabulary of the properties.                                           *)
(***************************************************************************)
Range(seq) == {seq[i] : i \in DOMAIN seq}

\* find_matches has returned
Computed == calls.find_matches > 0

Full    == result.full_matches
Partial == result.partial_matches
Entries == Range(Full) \cup Range(Partial)

\* how many items of an ingredient list, each counted on its own, have a
\* normalized token among the tokens of avail
RECURSIVE CountIn(_, _)
CountIn(ings, avail) ==
  IF ings = <<>> THEN 0
  ELSE (IF \E k \in DOMAIN avail : avail[k] = normalize(Head(ings))
        THEN 1 ELSE 0) + CountIn(Tail(ings), avail)

MatchedOf(r) == CountIn(r.ingredients, available)
TotalOf(r)   == Len(r.ingredients)

\* a recipe has an entry in a result list
InList(r, list) ==
  \E k \in DOMAIN list :
    list[k].name = r.name /\ list[k].ingredients = r.ingredients

\* the catalog positions whose recipe satisfies P
PositionsWhere(P(_)) == {i \in DOMAIN recipes : P(recipes[i])}

FullRecipe(r)    == MatchedOf(r) = TotalOf(r)
PartialRecipe(r) == 0 < MatchedOf(r) /\ MatchedOf(r) < TotalOf(r)

\* a <= b on strings: compare the heads, then the tails
RECURSIVE NameLeq(_, _)
NameLeq(a, b) ==
  IF a = <<>> THEN TRUE
  ELSE IF b = <<>> THEN FALSE
  ELSE IF ord(Head(a)) # ord(Head(b)) THEN ord(Head(a)) < ord(Head(b))
  ELSE NameLeq(Tail(a), Tail(b))

(***************************************************************************)
(* C1.  find_matches places each recipe in exactly one of full_matches,    *)
(* partial_matches or neither: it has an entry in full_matches iff         *)
(* matched = total, an entry in partial_matches iff 0 < matched < total,   *)
(* never in both, and each list has one entry per such recipe.             *)
(***************************************************************************)
C1_Partition ==
  Computed =>
    /\ \A i \in DOMAIN recipes :
         /\ InList(recipes[i], Full) <=> FullRecipe(recipes[i])
         /\ InList(recipes[i], Partial) <=> PartialRecipe(recipes[i])
         /\ ~(InList(recipes[i], Full) /\ InList(recipes[i], Partial))
    /\ Len(Full) = Cardinality(PositionsWhere(FullRecipe))
    /\ Len(Partial) = Cardinality(PositionsWhere(PartialRecipe))

\* a catalog of a partial match and a recipe in neither list, and a catalog
\* of a full match and a partial match, are told apart by their first recipe
C1_Witness ==
  /\ Computed
  /\ Len(recipes) = 2
  /\ Len(Partial) = 1
  /\ Len(Full) = 1
  /\ PartialRecipe(recipes[1])

(***************************************************************************)
(* C2.  As claimed: every entry satisfies 0 <= matched <= total and its    *)
(* score field equals matched/total exactly (0.0 when total is 0).         *)
(***************************************************************************)
C2_ScoreExact ==
  Computed =>
    \A e \in Entries :
      /\ 0 <= e.matched /\ e.matched <= e.total
      /\ e.total = 0 => e.score = 0
      /\ e.total > 0 => e.score * e.total = 1000 * e.matched

(***************************************************************************)
(* C2, amended.  Every entry satisfies 0 <= matched <= total and its score *)
(* field is matched/total rounded to three decimals: a whole number of     *)
(* thousandths at most half a thousandth away from matched/total (0.0 when *)
(* total is 0).                                                            *)
(***************************************************************************)
C2_ScoreRounded ==
  Computed =>
    \A e \in Entries :
      /\ 0 <= e.matched /\ e.matched <= e.total
      /\ e.total = 0 => e.score = 0
      /\ e.total > 0 =>
           /\ 2 * (1000 * e.matched - e.score * e.total) <= e.total
           /\ 2 * (e.score * e.total - 1000 * e.matched) <= e.total

\* two of three ingredients matched: the entry's score is 0.667
C2_Witness ==
  /\ Computed
  /\ \E e \in Entries : e.matched = 2 /\ e.total = 3 /\ e.score = 667

(***************************************************************************)
(* C3.  A recipe with an empty ingredient list is scored as score 0.0,     *)
(* matched 0, total 0, and is a full match and not a partial match, for    *)
(* every available list.                                                   *)
(***************************************************************************)
C3_EmptyRecipeIsFull ==
  Computed =>
    \A i \in DOMAIN recipes :
      recipes[i].ingredients = <<>> =>
        /\ \E k \in DOMAIN Full :
             /\ Full[k].name = recipes[i].name
             /\ Full[k].ingredients = <<>>
             /\ Full[k].matched = 0
             /\ Full[k].total = 0
             /\ Full[k].score = 0
        /\ ~InList(recipes[i], Partial)

\* a recipe without ingredients has been matched against a non-empty list
C3_Witness ==
  /\ Computed
  /\ available # <<>>
  /\ \E i \in DOMAIN recipes : recipes[i].ingredients = <<>>
  /\ \E k \in DOMAIN Full : Full[k].total = 0

(***************************************************************************)
(* C4.  As claimed: a recipe whose matched count is 0 is in neither list,  *)
(* and no entry of either list has matched = 0.                            *)
(***************************************************************************)
C4_NoZeroMatched ==
  Computed =>
    /\ \A e \in Entries : e.matched # 0
    /\ \A i \in DOMAIN recipes :
         MatchedOf(recipes[i]) = 0 =>
           ~InList(recipes[i], Full) /\ ~InList(recipes[i], Partial)

(***************************************************************************)
(* C4, amended.  A recipe with at least one ingredient whose matched count *)
(* is 0 is in neither list, and an entry of either list has matched = 0    *)
(* only if its total is 0.                                                 *)
(***************************************************************************)
C4_NoZeroMatchedNonEmpty ==
  Computed =>
    /\ \A e \in Entries : e.matched = 0 => e.total = 0
    /\ \A i \in DOMAIN recipes :
         (MatchedOf(recipes[i]) = 0 /\ TotalOf(recipes[i]) > 0) =>
           ~InList(recipes[i], Full) /\ ~InList(recipes[i], Partial)

\* a recipe with ingredients, none of them available, next to one that matched
C4_Witness ==
  /\ Computed
  /\ Entries # {}
  /\ \E i \in DOMAIN recipes :
       MatchedOf(recipes[i]) = 0 /\ TotalOf(recipes[i]) > 0

(***************************************************************************)
(* C5.  Both lists are ordered by (rounded score descending, matched       *)
(* descending, name ascending): for adjacent entries a before b, either    *)
(* a.score > b.score, or the scores are equal and a.matched > b.matched,   *)
(* or both are equal and a.name <= b.name.  Two partial matches tied on    *)
(* score and matched are in ascending name order.                          *)
(***************************************************************************)
InOrder(a, b) ==
  \/ a.score > b.score
  \/ a.score = b.score /\ a.matched > b.matched
  \/ a.score = b.score /\ a.matched = b.matched /\ NameLeq(a.name, b.name)

Ordered(list) ==
  \A k \in 1..(Len(list) - 1) : InOrder(list[k], list[k + 1])

C5_Sorted ==
  Computed =>
    /\ Ordered(Full)
    /\ Ordered(Partial)
    /\ \A i, j \in DOMAIN Partial :
         (i < j /\ Partial[i].score = Partial[j].score
                /\ Partial[i].matched = Partial[j].matched) =>
           NameLeq(Partial[i].name, Partial[j].name)

\* two tied partial matches whose catalog order is the reverse of their
\* name order
C5_Witness ==
  /\ Computed
  /\ Len(Partial) = 2
  /\ Partial[1].score = Partial[2].score
  /\ Partial[1].matched = Partial[2].matched
  /\ Partial[1].name = <<"B">> /\ Partial[2].name = <<"a">>
  /\ \E i, j \in DOMAIN recipes :
       /\ i < j
       /\ recipes[i].name = <<"a">> /\ PartialRecipe(recipes[i])
       /\ recipes[j].name = <<"B">> /\ PartialRecipe(recipes[j])

(***************************************************************************)
(* C6.  parse_input returns exactly the comma-separated pieces of its      *)
(* input that are non-empty after trimming, each trimmed and lower-cased,  *)
(* in input order with duplicates kept; an input with no such piece gives  *)
(* the empty sequence; no token is empty or starts or ends with            *)
(* whitespace.                                                             *)
(***************************************************************************)
\* the string main hands to parse_input
Raw == IF Len(argv) > 0 THEN argv[1] ELSE stdin

Parsed == pc # "start"

\* one pass over the input from position i: cur is the token read so far
\* in the current piece, gap the whitespace read since its last other
\* character, acc the tokens of the pieces already closed
RECURSIVE Scan(_, _, _, _, _)
Scan(s, i, cur, gap, acc) ==
  LET closed == IF cur # <<>> THEN Append(acc, cur) ELSE acc
  IN  IF i > Len(s) THEN closed
      ELSE IF s[i] = "," THEN Scan(s, i + 1, <<>>, <<>>, closed)
      ELSE IF s[i] = " "
           THEN Scan(s, i + 1, cur, IF cur = <<>> THEN <<>> ELSE Append(gap, " "), acc)
      ELSE Scan(s, i + 1, cur \o gap \o <<lower_char(s[i])>>, <<>>, acc)

C6_ParseInput ==
  Parsed =>
    /\ available = Scan(Raw, 1, <<>>, <<>>, <<>>)
    /\ (\A i \in DOMAIN Raw : Raw[i] \in {" ", ","}) => available = <<>>
    /\ \A i \in DOMAIN available :
         /\ available[i] # <<>>
         /\ available[i][1] # " "
         /\ available[i][Len(available[i])] # " "
         /\ \A k \in DOMAIN available[i] :
              ~IsUpper(available[i][k]) /\ available[i][k] # ","

\* "E,,e": an upper-case piece, an empty piece and a repeated token
C6_Witness ==
  /\ Parsed
  /\ Raw = <<"E", ",", ",", "e">>
  /\ available = << <<"e">>, <<"e">> >>

(***************************************************************************)
(* C7.  As claimed: when parsing yields no ingredient the only output of   *)
(* the run is the "No ingredients provided" line; otherwise the            *)
(* "Available" line is the first output.                                   *)
(***************************************************************************)
C7_OnlyOutput ==
  /\ (pc = "done" /\ available = <<>>) => out = << <<"no_ingredients">> >>
  /\ (pc = "done" /\ available # <<>>) => out[1] = <<"available", available>>

(***************************************************************************)
(* C7, amended.  In every run of main, after the prompt that input()       *)
(* writes first when no argument is given: if parsing yields zero          *)
(* ingredients the only output is the "No ingredients provided" line and   *)
(* the run ends without running the Matcher or the Presenter; otherwise    *)
(* the "Available" line is printed first, then the Matcher runs exactly    *)
(* once, then the full-matches section is printed before the               *)
(* partial-matches section; and the run ends.                              *)
(***************************************************************************)
Prompted == Len(argv) = 0 /\ pc # "start"

\* the output after the prompt
Body == IF Prompted THEN Tail(out) ELSE out

AvailableLine == <<"available", available>>

Kind(line) == line[1]

FullKinds    == {"full_item", "no_full"}
PartialKinds == {"partial_item", "ingredients", "no_partial"}

\* the two sections, the full one first, after the lines before position n
SectionsFrom(lines, n) ==
  \E i, j \in (n + 1)..Len(lines) :
    /\ i = n + 1 /\ i < j
    /\ Kind(lines[i]) = "full_header"
    /\ Kind(lines[j]) = "partial_header"
    /\ j > i + 1 /\ j < Len(lines)
    /\ \A k \in (i + 1)..(j - 1) : Kind(lines[k]) \in FullKinds
    /\ \A k \in (j + 1)..Len(lines) : Kind(lines[k]) \in PartialKinds

C7_Safety ==
  /\ Prompted => out # <<>> /\ out[1] = <<"prompt">>
  /\ \A k \in DOMAIN Body : Kind(Body[k]) # "prompt"
  /\ calls.find_matches <= 1 /\ calls.pretty_print <= 1
  /\ (pc = "done" /\ available = <<>>) =>
       Body = << <<"no_ingredients">> >> /\ calls = NoCalls
  /\ Computed => Body # <<>> /\ Body[1] = AvailableLine
  /\ pc = "present" => Body = <<AvailableLine>> /\ calls.pretty_print = 0
  /\ calls.pretty_print > 0 => Computed
  /\ (pc = "done" /\ available # <<>>) =>
       /\ calls.find_matches = 1 /\ calls.pretty_print = 1
       /\ Body[1] = AvailableLine
       /\ SectionsFrom(Body, 1)

C7_MainFlow == []C7_Safety /\ <>(pc = "done")

\* a run without argument that printed a partial match after the prompt
C7_Witness ==
  /\ pc = "done"
  /\ Len(argv) = 0
  /\ available # <<>>
  /\ Partial # <<>>
  /\ calls = [find_matches |-> 1, pretty_print |-> 1]

(***************************************************************************)
(* C8.  score_recipe returns matched = the number of positions of the      *)
(* recipe's ingredient list whose normalized token is an available token,  *)
(* and total = the length of that list: an ingredient listed twice counts  *)
(* twice, and repeating or reordering the available tokens changes         *)
(* nothing.                                                                *)
(***************************************************************************)
C8_ScoreRecipe ==
  Computed =>
    /\ \A i \in DOMAIN recipes :
         /\ score_recipe(available, recipes[i]).matched = MatchedOf(recipes[i])
         /\ score_recipe(available, recipes[i]).total = TotalOf(recipes[i])
         /\ \A other \in AvailLists :
              Range(other) = Range(available) =>
                score_recipe(other, recipes[i])
                  = score_recipe(available, recipes[i])
    /\ \A e \in Entries :
         /\ e.total = Len(e.ingredients)
         /\ e.matched = CountIn(e.ingredients, available)

\* an available ingredient listed twice by a recipe, matched against a list
\* that repeats a token
C8_Witness ==
  /\ Computed
  /\ Len(available) = 2 /\ available[1] = available[2]
  /\ \E e \in Entries :
       /\ e.matched = 2
       /\ Len(e.ingredients) = 2
       /\ e.ingredients[1] = e.ingredients[2]

(***************************************************************************)
(* C9.  For every partial-match entry the printed percentage is the floor  *)
(* of 100 * matched / total, and so lies between 0 and 99.                 *)
(***************************************************************************)
C9_PercentIsFloor ==
  \A k \in DOMAIN out :
    Kind(out[k]) = "partial_item" =>
      /\ out[k][3] = (100 * out[k][4]) \div out[k][5]
      /\ 0 <= out[k][3] /\ out[k][3] <= 99

(***************************************************************************)
(* C10.  find_matches leaves the catalog as it was, pretty_print leaves    *)
(* the result as it was, and each entry's ingredients field is the         *)
(* ingredient list of its recipe as authored.                              *)
(***************************************************************************)
C10_Frame ==
  /\ recipes' = recipes
  /\ pc = "present" => result' = result

C10_AsAuthored ==
  Computed =>
    /\ \A e \in Entries :
         \E i \in DOMAIN recipes :
           recipes[i].name = e.name /\ recipes[i].ingredients = e.ingredients
    /\ \A k \in DOMAIN out :
         Kind(out[k]) = "ingredients" =>
           \E i \in DOMAIN recipes : recipes[i].ingredients = out[k][2]

C10_Unchanged == [][C10_Frame]_vars /\ []C10_AsAuthored

\* a printed partial match of a recipe whose authored ingredient is not in
\* normalized form
C10_Witness ==
  /\ pc = "done"
  /\ \E k \in DOMAIN Partial :
       \E i \in DOMAIN Partial[k].ingredients :
         Partial[k].ingredients[i] = <<"E", " ">>

=============================================================================
